---- MODULE Spec2Model ----
(***************************************************************************)
(* Model of nameko_opentelemetry: the worker-span lifecycle hooks          *)
(* (entrypoints.py) and the event dispatch wrappers (events.py).           *)
(***************************************************************************)
EXTENDS Naturals, Integers, Sequences, FiniteSets, TLC

VARIABLES
    patched,        \* the host functions currently wrapped by wrap_function_wrapper
    config,         \* the config dict handed to instrument()
    adapter_types,  \* entrypoints.adapter_types: entrypoint class -> adapter class
    active_spans,   \* entrypoints.active_spans: worker_ctx -> (activation, span, token, adapter)
    spans,          \* the tracer's spans, in start order; a span's id is its index
    ambient,        \* current trace context of each execution context
    context_data,   \* worker_ctx.context_data of each worker context (a carrier)
    clock,          \* the value _time_ns() returns
    warnings,       \* number of warnings.warn() diagnostics emitted
    calls,          \* number of hook / dispatch calls made so far
    last,           \* what the most recent call did
    hookLog,        \* the hook calls the host made for each worker context, in order
    dispatchers,    \* the dispatch wrappers handed out, by the execution context that holds them
    dispatched,     \* number of calls of a wrapped dispatch function
    published,      \* messages handed to the underlying publisher, in order
    inflight        \* dispatch calls that have injected and not yet published, by calling thread

vars == <<patched, config, adapter_types, active_spans, spans, ambient,
          context_data, clock, warnings, calls, last, hookLog, dispatchers, dispatched,
          published, inflight>>


-----------------------------------------------------------------------------
(* Bounds *)

MaxCalls == 4
MaxClock == 2
MaxDispatches == 2

-----------------------------------------------------------------------------
(* The host's side: worker contexts, entrypoints, outcomes *)

None == "None"

WorkerCtxs == {"w1", "w2", "w3"}

\* Execution contexts: one per worker, and the caller of a standalone dispatcher.
ExecCtxs == WorkerCtxs \cup {"main"}

\* Exception classes the service methods raise; KeyError derives from
\* LookupError.
ExcTypes == {"KeyError", "ValueError"}
IsSubclass(t, u) == t = u \/ (t = "KeyError" /\ u = "LookupError")

\* The entrypoint descriptor of each worker context.
\*   expected_exceptions / sensitive_arguments are empty when undeclared
\*   (the code reads both through `getattr(..., None)` and truthiness).
Entrypoint(c) ==
    CASE c = "w1" -> [cls |-> "nameko.events.EventHandler",
                      type_name |-> "EventHandler", method_name |-> "handle",
                      expected_exceptions |-> {"LookupError"},
                      sensitive_arguments |-> {}]
      [] c = "w2" -> [cls |-> "custom.Entrypoint",
                      type_name |-> "Entrypoint", method_name |-> "login",
                      expected_exceptions |-> {},
                      sensitive_arguments |-> {"p"}]
      [] OTHER    -> [cls |-> "custom.Entrypoint",
                      type_name |-> "Entrypoint", method_name |-> "run",
                      expected_exceptions |-> {"ValueError"},
                      sensitive_arguments |-> {}]

ServiceName(c) == IF c = "w1" THEN "billing" ELSE "auth"

\* Call arguments as (name, value) pairs; w3 is called with arguments that do
\* not fit the method's signature.
CallArgs(c) ==
    CASE c = "w1" -> <<<<"e", "1">>>>
      [] c = "w2" -> <<<<"u", "7">>, <<"p", "9">>>>
      [] OTHER    -> <<<<"z", "3">>>>
ArgsFitSignature(c) == c # "w3"

\* A trace context: the (trace id, span id) of the span it designates.
EmptyContext == [trace |-> 0, span |-> 0]
RemoteContext == [trace |-> 90, span |-> 91]

\* A carrier is a mapping of header names to values; the trace context
\* travels in its "traceparent" entry.
EmptyCarrier == <<>>
TraceParent(ctx) == [k \in {"traceparent"} |-> <<ctx.trace, ctx.span>>]

\* worker_ctx.context_data as the host built it from the inbound call. Only w1
\* was called with a traceparent header.
InboundCarrier(c) ==
    IF c = "w1"
    THEN TraceParent(RemoteContext) @@ [k \in {"language"} |-> "en"]
    ELSE [k \in {"language"} |-> "en"]

\* The headers a caller hands to the standalone event_dispatcher.
CallerHeaders == [k \in {"x-tenant"} |-> "t1"]

NoExc == [type |-> None, msg |-> None]
Outcomes ==
    {[result |-> r, exc |-> NoExc] : r \in {None, "r1"}}
    \cup {[result |-> None, exc |-> [type |-> t, msg |-> "boom"]] : t \in ExcTypes}

\* The configurations instrument() is called with.
Configs ==
    {[send_headers |-> FALSE, send_request_payloads |-> FALSE,
      send_response_payloads |-> FALSE, truncate_max_length |-> 4,
      entrypoint_adapters |-> <<>>],
     [send_headers |-> TRUE, send_request_payloads |-> TRUE,
      send_response_payloads |-> TRUE, truncate_max_length |-> 4,
      entrypoint_adapters |->
          [k \in {"custom.Entrypoint"} |->
              "nameko_opentelemetry.events.EventHandlerEntrypointAdapter"]]}

-----------------------------------------------------------------------------
(* utils.py helpers *)

\* A Python mapping is modelled as a sequence of (key, value) pairs and a
\* text as a sequence of characters.
RECURSIVE serialise_to_string(_)
serialise_to_string(pairs) ==
    IF pairs = <<>> THEN <<>>
    ELSE <<pairs[1][1], ":", pairs[1][2]>>
         \o (IF Len(pairs) > 1 THEN <<",">> ELSE <<>>)
         \o serialise_to_string(Tail(pairs))

TruncationMarker == <<"...">>

\* truncate(value, max_len) -> (text, truncated)
truncate(text, max_len) ==
    IF Len(text) <= max_len
    THEN <<text, FALSE>>
    ELSE <<SubSeq(text, 1, max_len) \o TruncationMarker, TRUE>>

\* safe_for_serialisation(value): values that cannot be represented degrade
\* to a placeholder.
safe_for_serialisation(value) ==
    IF value \in {"", "r1"} THEN value ELSE "<unserialisable>"

\* str() of a Python bool
str(b) == IF b THEN "True" ELSE "False"

\* nameko.utils.get_redacted_args: the values of the sensitive arguments are
\* replaced by a redaction marker.
get_redacted_args(c) ==
    [i \in 1..Len(CallArgs(c)) |->
        IF CallArgs(c)[i][1] \in Entrypoint(c).sensitive_arguments
        THEN <<CallArgs(c)[i][1], "*">>
        ELSE CallArgs(c)[i]]

\* worker_ctx.data as a mapping
WorkerData(c) ==
    IF "traceparent" \in DOMAIN InboundCarrier(c)
    THEN <<<<"language", "en">>, <<"traceparent", "90-91">>>>
    ELSE <<<<"language", "en">>>>

-----------------------------------------------------------------------------
(* entrypoints.py: adapter classes *)

DefaultAdapter == "nameko_opentelemetry.entrypoints.EntrypointAdapter"
EventHandlerAdapter == "nameko_opentelemetry.events.EventHandlerEntrypointAdapter"

DEFAULT_ADAPTERS ==
    [k \in {"nameko.rpc.Rpc", "nameko.web.handlers.HttpRequestHandler",
            "nameko.events.EventHandler", "nameko.messaging.Consumer",
            "nameko.timer.Timer"} |->
        CASE k = "nameko.rpc.Rpc" -> "nameko_opentelemetry.rpc.RpcEntrypointAdapter"
          [] k = "nameko.web.handlers.HttpRequestHandler" ->
                 "nameko_opentelemetry.http.HttpEntrypointAdapter"
          [] k = "nameko.events.EventHandler" -> EventHandlerAdapter
          [] k = "nameko.messaging.Consumer" ->
                 "nameko_opentelemetry.messaging.ConsumerEntrypointAdapter"
          [] OTHER -> "nameko_opentelemetry.timer.TimerEntrypointAdapter"]

\* The methods each adapter class defines itself, and Python's attribute
\* lookup along the class hierarchy (every adapter derives from
\* EntrypointAdapter). NoMethod stands for AttributeError.
NoMethod == "AttributeError"
BaseMethods == {"get_span_name", "get_metadata", "exception_was_expected",
                "start_span", "end_span", "get_attributes",
                "get_exception_attributes", "get_result_attributes",
                "get_status"}
OwnMethods(cls) ==
    CASE cls = DefaultAdapter -> BaseMethods
      [] cls = EventHandlerAdapter -> {"get_common_attributes"}
      [] OTHER -> {}
LookupMethod(cls, name) ==
    IF name \in OwnMethods(cls) THEN cls
    ELSE IF cls # DefaultAdapter /\ name \in BaseMethods THEN DefaultAdapter
    ELSE NoMethod
SuperMethod(cls, name) ==
    IF cls # DefaultAdapter /\ name \in BaseMethods THEN DefaultAdapter
    ELSE NoMethod

\* EntrypointAdapter.get_span_name
get_span_name(adapter) ==
    ServiceName(adapter.worker_ctx) \o "."
        \o Entrypoint(adapter.worker_ctx).method_name

\* EntrypointAdapter.get_metadata
get_metadata(adapter, data) == data[adapter.worker_ctx]

\* EntrypointAdapter.span_kind
span_kind(adapter) == "SERVER"

\* Variant of exception_was_expected: the declared types are ignored.
exception_never_expected(adapter, exc) == FALSE

\* EntrypointAdapter.exception_was_expected: isinstance(exc, expected or ())
exception_was_expected(adapter, exc) ==
    LET expected == Entrypoint(adapter.worker_ctx).expected_exceptions
    IN  \E u \in expected : IsSubclass(exc.type, u)

\* The worker pool gauges read by get_attributes: the workers whose unit of
\* work has begun and not ended.
Count(log, x) == Cardinality({i \in DOMAIN log : log[i] = x})
Running(log) ==
    Cardinality({c \in WorkerCtxs : Count(log[c], "begin") > Count(log[c], "end")})

\* EntrypointAdapter.get_attributes: [raised, attrs]. inspect.getcallargs
\* raises TypeError when the call arguments do not fit the method.
get_attributes(adapter, cfg, running) ==
    LET c == adapter.worker_ctx
        entrypoint == Entrypoint(c)
        common == [k \in {"service_name", "entrypoint_type", "method_name",
                          "active_workers", "available_workers"} |->
                    CASE k = "service_name" -> ServiceName(c)
                      [] k = "entrypoint_type" -> entrypoint.type_name
                      [] k = "method_name" -> entrypoint.method_name
                      [] k = "active_workers" -> running
                      [] OTHER -> Cardinality(WorkerCtxs) - running]
        headers == IF cfg.send_headers
                   THEN [k \in {"context_data"} |->
                            serialise_to_string(WorkerData(c))]
                   ELSE <<>>
        redacted == entrypoint.sensitive_arguments # {}
        call_args == IF redacted THEN get_redacted_args(c) ELSE CallArgs(c)
        cut == truncate(serialise_to_string(call_args), cfg.truncate_max_length)
        payload == [k \in {"call_args", "call_args_redacted",
                           "call_args_truncated"} |->
                      CASE k = "call_args" -> cut[1]
                        [] k = "call_args_redacted" -> str(redacted)
                        [] OTHER -> str(cut[2])]
    IN  IF cfg.send_request_payloads /\ ~redacted /\ ~ArgsFitSignature(c)
        THEN [raised |-> TRUE, attrs |-> <<>>]
        ELSE [raised |-> FALSE,
              attrs |-> IF cfg.send_request_payloads
                        THEN payload @@ headers @@ common
                        ELSE headers @@ common]

\* EventHandlerEntrypointAdapter.get_common_attributes: it starts with
\* super().get_common_attributes(), which no base class defines.
get_common_attributes(adapter, cfg, running) ==
    IF SuperMethod(adapter.cls, "get_common_attributes") = NoMethod
    THEN [raised |-> TRUE, attrs |-> <<>>]
    ELSE [raised |-> FALSE,
          attrs |-> [k \in {"nameko.events.handler_type",
                            "nameko.events.reliable_delivery",
                            "nameko.events.requeue_on_error",
                            "amqp.consumer"} |-> "set"]
                    @@ get_attributes(adapter, cfg, running).attrs]

\* EntrypointAdapter.get_exception_attributes
get_exception_attributes(adapter, exc) ==
    [k \in {"exception.stacktrace", "exception.expected"} |->
        IF k = "exception.stacktrace" THEN "Traceback: " \o exc.type
        ELSE str(exception_was_expected(adapter, exc))]

\* Variant of get_result_attributes: the option is not consulted.
get_result_attributes_always(cfg, result) ==
    [k \in {"result"} |-> safe_for_serialisation(IF result = None THEN "" ELSE result)]

\* EntrypointAdapter.get_result_attributes
get_result_attributes(cfg, result) ==
    IF cfg.send_response_payloads
    THEN [k \in {"result"} |->
            safe_for_serialisation(IF result = None THEN "" ELSE result)]
    ELSE <<>>

\* EntrypointAdapter.get_status
StatusUnset == [code |-> "UNSET", description |-> None]
StatusOk == [code |-> "OK", description |-> None]
get_status(adapter, result, exc) ==
    IF exc # NoExc /\ ~exception_was_expected(adapter, exc)
    THEN [code |-> "ERROR", description |-> exc.type \o ": " \o exc.msg]
    ELSE StatusOk

-----------------------------------------------------------------------------
(* The tracing backend: spans and the ambient context *)

\* extract(carrier): the trace context of the carrier's traceparent entry,
\* else an empty one.
extract(carrier) ==
    IF "traceparent" \in DOMAIN carrier
    THEN [trace |-> carrier["traceparent"][1], span |-> carrier["traceparent"][2]]
    ELSE EmptyContext

\* Variant of NewSpan: the span is parented to the span started before it.
NewSpan_child_of_previous(id, name, kind, owner, current, sampled, attributes, now) ==
    [name |-> name, kind |-> kind, owner |-> owner,
     context |-> [trace |-> 1, span |-> id],
     parent |-> IF id = 1 THEN EmptyContext ELSE [trace |-> 1, span |-> id - 1],
     sampled |-> sampled,
     start |-> now, end |-> 0, ends |-> 0, exits |-> 0, detaches |-> 0,
     attributes |-> attributes, status |-> StatusUnset, events |-> <<>>]

\* tracer.start_span(...) under the current context `current`: the new span
\* continues current's trace, or starts a new trace when current is empty.
NewSpan(id, name, kind, owner, current, sampled, attributes, now) ==
    [name |-> name, kind |-> kind, owner |-> owner,
     context |-> [trace |-> IF current = EmptyContext THEN id ELSE current.trace,
                  span |-> id],
     parent |-> current, sampled |-> sampled,
     start |-> now, end |-> 0, ends |-> 0, exits |-> 0, detaches |-> 0,
     attributes |-> attributes, status |-> StatusUnset, events |-> <<>>]

\* Span.is_recording(): sampled and not yet ended.
is_recording(span) == span.sampled /\ span.ends = 0

\* Variant of SpanEnd: the hook forgets to end the span.
SpanEnd_forgotten(span, now) == span

\* Span.end(end_time): only the first call sets the end time.
SpanEnd(span, now) ==
    [span EXCEPT !.end = IF span.ends = 0 THEN now ELSE @, !.ends = @ + 1]

-----------------------------------------------------------------------------
(* entrypoints.py: the registry and the hooks *)

\* What a call raised to its caller: NoRaise, or the exception's class.
NoRaise == "none"

\* `last` describes the latest call of a wrapper: `wrapped` is the number of
\* calls the wrapper made to the function it wraps.
\* `last.args` of a call that carries no (result, exc_info) pair
NoArgs == [result |-> None, exc |-> NoExc]

\* Variant of warn: the missing record is passed over in silence.
warn_silent(count) == count

\* warnings.warn(...): one more diagnostic
warn(count) == count + 1

\* Variant of adapter_lookup: the default is stored on every lookup.
adapter_lookup_overwrite(types, cls) == [k \in {cls} |-> DefaultAdapter] @@ types

\* adapter_types[type(worker_ctx.entrypoint)] on the defaultdict: a missing
\* key is inserted with the default factory's value.
adapter_lookup(types, cls) ==
    IF cls \in DOMAIN types THEN types
    ELSE [k \in {cls} |-> DefaultAdapter] @@ types

\* Variant of adapter_factory: the registry is looked up by the entrypoint
\* instance instead of its type, so every lookup misses.
adapter_factory_by_instance(types, c) == [cls |-> DefaultAdapter, worker_ctx |-> c]

\* adapter_factory(worker_ctx, config)
adapter_factory(types, c) ==
    [cls |-> adapter_lookup(types, Entrypoint(c).cls)[Entrypoint(c).cls],
     worker_ctx |-> c]

\* EntrypointAdapter.start_span: the attributes come from whatever
\* `self.get_attributes` resolves to on the adapter's class.
start_span(adapter, span, cfg, running) ==
    IF ~is_recording(span) THEN [raised |-> FALSE, span |-> span]
    ELSE LET got == IF LookupMethod(adapter.cls, "get_attributes") = DefaultAdapter
                    THEN get_attributes(adapter, cfg, running)
                    ELSE [raised |-> TRUE, attrs |-> <<>>]
         IN  IF got.raised THEN [raised |-> TRUE, span |-> span]
             ELSE [raised |-> FALSE,
                   span |-> [span EXCEPT !.attributes = got.attrs @@ @]]

\* Variant of end_span: the status is set whether or not the span is recording.
end_span_status_always(adapter, span, cfg, result, exc) ==
    LET noted ==
            IF ~is_recording(span) THEN span
            ELSE IF exc # NoExc
            THEN [span EXCEPT !.events = Append(@,
                     [exception |-> exc, escaped |-> TRUE,
                      attributes |-> get_exception_attributes(adapter, exc)])]
            ELSE [span EXCEPT !.attributes =
                     get_result_attributes(cfg, result) @@ @]
    IN  [noted EXCEPT !.status = get_status(adapter, result, exc)]

\* EntrypointAdapter.end_span
end_span(adapter, span, cfg, result, exc) ==
    IF ~is_recording(span) THEN span
    ELSE LET noted ==
                 IF exc # NoExc
                 THEN [span EXCEPT !.events = Append(@,
                          [exception |-> exc, escaped |-> TRUE,
                           attributes |-> get_exception_attributes(adapter, exc)])]
                 ELSE [span EXCEPT !.attributes =
                          get_result_attributes(cfg, result) @@ @]
         IN  [noted EXCEPT !.status = get_status(adapter, result, exc)]

\* activation.__exit__(...): the scope resets the ambient context to what it
\* was when the scope was entered; an already exited scope resets nothing.
activation_exit(activation, span, current) ==
    IF span.exits = 0 THEN activation.old ELSE current

\* Variant of detach: the token is never reset.
detach_nothing(token, span, current) == current

\* context.detach(token): the ambient context goes back to what it was when
\* the token was obtained; a used token is refused (logged, no effect).
detach(token, span, current) ==
    IF span.detaches = 0 THEN token.old ELSE current

\* The steps of worker_result on a found record, in the order of the code.
EndSteps == <<"adapter.end_span", "activation.__exit__", "span.end", "context.detach">>

\* One step of worker_result on st = [span, current, ops].
EndStep(name, st, activated, cfg, outcome, now) ==
    LET done == [st EXCEPT !.ops = Append(@, name)]
    IN  CASE name = "adapter.end_span" ->
                [done EXCEPT !.span = end_span(activated.adapter, st.span, cfg,
                                               outcome.result, outcome.exc)]
          [] name = "activation.__exit__" ->
                [done EXCEPT !.current = activation_exit(activated.activation,
                                                         st.span, st.current),
                             !.span = [st.span EXCEPT !.exits = @ + 1]]
          [] name = "span.end" ->
                [done EXCEPT !.span = SpanEnd(st.span, now)]
          [] OTHER ->
                [done EXCEPT !.current = detach(activated.token, st.span, st.current),
                             !.span = [st.span EXCEPT !.detaches = @ + 1]]

RECURSIVE RunEndSteps(_, _, _, _, _, _)
RunEndSteps(steps, st, activated, cfg, outcome, now) ==
    IF steps = <<>> THEN st
    ELSE RunEndSteps(Tail(steps),
                     EndStep(Head(steps), st, activated, cfg, outcome, now),
                     activated, cfg, outcome, now)

WorkerHooks == {"ServiceContainer._worker_setup", "ServiceContainer._worker_result"}

\* instrument(tracer, config): fill the adapter registry, install the wrappers
instrument(cfg) ==
    /\ patched \cap WorkerHooks = {}
    /\ patched' = patched \cup WorkerHooks
    /\ config' = cfg
    /\ adapter_types' = cfg.entrypoint_adapters @@ DEFAULT_ADAPTERS @@ adapter_types
    /\ UNCHANGED <<inflight, active_spans, spans, ambient, context_data, clock, warnings,
                   calls, last, hookLog, dispatchers, dispatched, published>>

\* unwrap(obj, attr): the attribute is set back to the function it wraps; an
\* attribute that does not exist, or is no wrapper, is passed over.
unwrap(hooks, name) == IF name \in hooks THEN hooks \ {name} ELSE hooks

\* entrypoints.uninstrument(): the attributes it names are "worker_setup" and
\* "worker_result" of ServiceContainer.
uninstrument ==
    /\ patched' = unwrap(unwrap(patched, "ServiceContainer.worker_setup"),
                         "ServiceContainer.worker_result")
    /\ last' = [hook |-> "uninstrument", ctx |-> "none", raised |-> NoRaise,
                found |-> FALSE, span |-> 0, result |-> None, args |-> NoArgs,
                wrapped |-> 0, ops |-> <<>>]
    /\ UNCHANGED <<inflight, config, adapter_types, active_spans, spans, ambient,
                   context_data, clock, warnings, calls, hookLog, dispatchers,
                   dispatched, published>>

\* worker_setup: the wrapper around ServiceContainer._worker_setup
worker_setup(c, sampled) ==
    /\ "ServiceContainer._worker_setup" \in patched
    /\ calls < MaxCalls
    /\ Count(hookLog[c], "begin") = 0
    /\ LET adapter == adapter_factory(adapter_types, c)
           ctx == extract(get_metadata(adapter, context_data))
           token == [old |-> ambient[c]]
           id == Len(spans) + 1
           span == NewSpan(id, get_span_name(adapter), span_kind(adapter), c,
                           ctx, sampled,
                           [k \in {"hostname"} |-> "host"], clock)
           activation == [old |-> ctx]
           started == start_span(adapter, span, config,
                                 Running(hookLog) + 1)
       IN  /\ adapter_types' = adapter_lookup(adapter_types, Entrypoint(c).cls)
           /\ ambient' = [ambient EXCEPT ![c] = span.context]
           /\ active_spans' =
                  [k \in {c} |-> [activation |-> activation, span |-> id,
                                  token |-> token, adapter |-> adapter]]
                  @@ active_spans
           /\ spans' = Append(spans, started.span)
           /\ last' = [hook |-> "worker_setup", ctx |-> c,
                       raised |-> IF started.raised THEN "TypeError" ELSE NoRaise,
                       found |-> FALSE, span |-> id, result |-> None,
                       args |-> NoArgs, wrapped |-> 0,
                       ops |-> <<"context.attach", "activation.__enter__">>]
    /\ hookLog' = [hookLog EXCEPT ![c] = Append(@, "begin")]
    /\ calls' = calls + 1
    /\ UNCHANGED <<inflight, patched, config, context_data, clock, warnings,
                   dispatchers, dispatched, published>>

\* Variant of get_activated: the registry is read as one shared slot.
get_activated_shared(registry, c) ==
    registry[CHOOSE k \in DOMAIN registry : TRUE]

\* active_spans.get(worker_ctx), for a worker context that has a record
get_activated(registry, c) == registry[c]

\* worker_result: the wrapper around ServiceContainer._worker_result.
\* Nothing deletes the worker's entry of active_spans, and the weak key does
\* not let it go either: the stored adapter refers to the worker_ctx.
worker_result(c, outcome) ==
    /\ "ServiceContainer._worker_result" \in patched
    /\ calls < MaxCalls
    /\ calls' = calls + 1
    /\ hookLog' = [hookLog EXCEPT ![c] = Append(@, "end")]
    /\ IF c \notin DOMAIN active_spans
       THEN /\ warnings' = warn(warnings)
            /\ last' = [hook |-> "worker_result", ctx |-> c, raised |-> NoRaise,
                        found |-> FALSE, span |-> 0, result |-> None,
                        args |-> outcome, wrapped |-> 0, ops |-> <<>>]
            /\ UNCHANGED <<spans, ambient>>
       ELSE LET activated == get_activated(active_spans, c)
                id == activated.span
                done == RunEndSteps(EndSteps,
                                    [span |-> spans[id], current |-> ambient[c],
                                     ops |-> <<>>],
                                    activated, config, outcome, clock)
            IN  /\ spans' = [spans EXCEPT ![id] = done.span]
                /\ ambient' = [ambient EXCEPT ![c] = done.current]
                /\ last' = [hook |-> "worker_result", ctx |-> c,
                            raised |-> NoRaise, found |-> TRUE, span |-> id,
                            result |-> None, args |-> outcome, wrapped |-> 0,
                            ops |-> done.ops]
                /\ UNCHANGED warnings
    /\ UNCHANGED <<inflight, patched, config, adapter_types, active_spans, context_data,
                   clock, dispatchers, dispatched, published>>

\* Time passes between calls.
Tick ==
    /\ clock < MaxClock
    /\ clock' = clock + 1
    /\ UNCHANGED <<inflight, patched, config, adapter_types, active_spans, spans,
                   ambient, context_data, warnings, calls, last, hookLog,
                   dispatchers, dispatched, published>>

-----------------------------------------------------------------------------
(* events.py: the dispatch wrappers *)

DispatchHooks == {"EventDispatcher.get_dependency", "standalone.event_dispatcher"}

EventTypes == {"OrderCreated"}
\* Event payloads, as mappings.
EventData == {<<<<"o", "1">>>>, <<<<"o", "1">>, <<"q", "2">>, <<"r", "3">>>>}
\* How the caller passes the dispatch arguments.
CallShapes == {"positional", "keyword"}
\* What the underlying publish does: it returns None or raises.
PublishOutcomes == {"returns", "PublishError"}

\* get_event_exchange(service_name).name
ExchangeName(service) == service \o ".events"

\* utils.truncate's default max_len
DefaultTruncateMaxLength == 5

\* amqp_publisher_attributes(publisher, kwargs)
amqp_publisher_attributes(d) == [k \in {"amqp.publisher"} |-> d.kind]

\* collect_attributes(exchange_name, event_type, event_data, publisher, kwargs)
collect_attributes(exchange_name, event_type, event_data, d) ==
    LET cut == truncate(serialise_to_string(event_data), DefaultTruncateMaxLength)
    IN  amqp_publisher_attributes(d)
        @@ [k \in {"nameko.events.exchange", "nameko.events.event_type",
                   "nameko.events.event_data",
                   "nameko.events.event_data_truncated"} |->
              CASE k = "nameko.events.exchange" -> exchange_name
                [] k = "nameko.events.event_type" -> event_type
                [] k = "nameko.events.event_data" -> cut[1]
                [] OTHER -> str(cut[2])]

\* Variant of inject: the carrier is left as it was.
inject_nothing(carrier, current) == carrier

\* inject(carrier): the current trace context is written into the carrier's
\* traceparent entry; nothing is written when there is no current span.
inject(carrier, current) ==
    IF current = EmptyContext THEN carrier ELSE TraceParent(current) @@ carrier

\* The carrier a wrapped dispatch injects into: worker_ctx.context_data for a
\* worker's dispatcher, the `headers` dict for a standalone dispatcher.
Carrier(d, data) == IF d.kind = "worker" THEN data[d.worker_ctx] ELSE d.headers

\* events.instrument(tracer)
events_instrument ==
    /\ patched \cap DispatchHooks = {}
    /\ patched' = patched \cup DispatchHooks
    /\ UNCHANGED <<inflight, config, adapter_types, active_spans, spans, ambient,
                   context_data, clock, warnings, calls, last, hookLog,
                   dispatchers, dispatched, published>>

\* events.uninstrument()
events_uninstrument ==
    /\ patched' = unwrap(unwrap(patched, "EventDispatcher.get_dependency"),
                         "standalone.event_dispatcher")
    /\ last' = [hook |-> "events.uninstrument", ctx |-> "none",
                raised |-> NoRaise, found |-> FALSE, span |-> 0,
                result |-> None, args |-> NoArgs, wrapped |-> 0, ops |-> <<>>]
    /\ UNCHANGED <<inflight, config, adapter_types, active_spans, spans, ambient,
                   context_data, clock, warnings, calls, hookLog, dispatchers,
                   dispatched, published>>

\* get_dependency: the wrapper around EventDispatcher.get_dependency(worker_ctx)
get_dependency(c) ==
    /\ "EventDispatcher.get_dependency" \in patched
    /\ c \notin DOMAIN dispatchers
    /\ dispatchers' = [k \in {c} |->
           [kind |-> "worker", worker_ctx |-> c, ec |-> c,
            headers |-> EmptyCarrier, supplied |-> FALSE]] @@ dispatchers
    /\ UNCHANGED <<inflight, patched, config, adapter_types, active_spans, spans, ambient,
                   context_data, clock, warnings, calls, last, hookLog,
                   dispatched, published>>

\* event_dispatcher: the wrapper around nameko.standalone.events.event_dispatcher;
\* `headers` is the caller's keyword argument when `supplied`.
event_dispatcher(supplied, headers) ==
    /\ "standalone.event_dispatcher" \in patched
    /\ "main" \notin DOMAIN dispatchers
    /\ dispatchers' = [k \in {"main"} |->
           [kind |-> "standalone", worker_ctx |-> "main", ec |-> "main",
            headers |-> IF supplied THEN headers ELSE EmptyCarrier,
            supplied |-> supplied]] @@ dispatchers
    /\ UNCHANGED <<inflight, patched, config, adapter_types, active_spans, spans, ambient,
                   context_data, clock, warnings, calls, last, hookLog,
                   dispatched, published>>

\* wrapped_dispatch, of either wrapper: one call of the dispatch function the
\* wrapper returned. `service` is the standalone dispatch's first argument.
\* The host's publish sends the message with the carrier as it is when
\* publish is called.
wrapped_dispatch(i, service, event_type, event_data, shape, outcome) ==
    /\ dispatched < MaxDispatches
    /\ dispatched' = dispatched + 1
    /\ i \in DOMAIN dispatchers
    /\ LET d == dispatchers[i]
           service_name == IF d.kind = "worker" THEN ServiceName(d.worker_ctx)
                           ELSE service
           args == [service |-> service_name, event_type |-> event_type,
                    event_data |-> event_data, shape |-> shape]
       IN  /\ d.kind = "worker" => service = ServiceName(d.worker_ctx)
           /\ IF shape # "positional"
              THEN \* `event_type, event_data = args` fails on an empty tuple
                   /\ last' = [hook |-> "dispatch", ctx |-> d.ec,
                               raised |-> "ValueError", found |-> FALSE,
                               span |-> 0, result |-> None, args |-> NoArgs,
                               wrapped |-> 0, ops |-> <<>>]
                   /\ UNCHANGED <<spans, ambient, context_data, dispatchers,
                                  published>>
              ELSE LET id == Len(spans) + 1
                       attributes == collect_attributes(
                           ExchangeName(service_name), event_type, event_data, d)
                       span == NewSpan(id,
                           "Dispatch event " \o service_name \o "." \o event_type,
                           "CLIENT", d.ec, ambient[d.ec], TRUE, attributes, clock)
                       injected == inject(Carrier(d, context_data), span.context)
                       data1 == IF d.kind = "worker"
                                THEN [context_data EXCEPT ![d.worker_ctx] = injected]
                                ELSE context_data
                       d1 == IF d.kind = "worker" THEN d
                             ELSE [d EXCEPT !.headers = injected]
                       closed == [SpanEnd(span, clock) EXCEPT
                                     !.exits = 1,
                                     !.status = IF outcome = "returns" THEN @
                                                ELSE [code |-> "ERROR",
                                                      description |-> outcome \o ": "]]
                   IN  /\ spans' = Append(spans, closed)
                       /\ context_data' = data1
                       /\ dispatchers' = [dispatchers EXCEPT ![i] = d1]
                       /\ published' = Append(published,
                              [dispatcher |-> i, args |-> args,
                               headers |-> Carrier(d1, data1),
                               current |-> span.context, span |-> id,
                               outcome |-> outcome])
                       /\ ambient' = ambient
                       /\ last' = [hook |-> "dispatch", ctx |-> d.ec,
                                   raised |-> IF outcome = "returns" THEN NoRaise
                                              ELSE outcome,
                                   found |-> FALSE, span |-> id,
                                   result |-> None, args |-> NoArgs,
                                   wrapped |-> 1, ops |-> <<>>]
    /\ UNCHANGED <<inflight, patched, config, adapter_types, active_spans, clock,
                   warnings, calls, hookLog>>

\* The threads of a caller that share one dispatcher.
Threads == {"t1", "t2"}

\* wrapped_dispatch called by thread t, up to its call of the underlying
\* dispatch: the span is started and made current, and its context is
\* injected into the dispatcher's carrier.
wrapped_dispatch_inject(t, i, service, event_type, event_data) ==
    /\ dispatched < MaxDispatches
    /\ dispatched' = dispatched + 1
    /\ t \notin DOMAIN inflight
    /\ i \in DOMAIN dispatchers
    /\ LET d == dispatchers[i]
           service_name == IF d.kind = "worker" THEN ServiceName(d.worker_ctx)
                           ELSE service
           args == [service |-> service_name, event_type |-> event_type,
                    event_data |-> event_data, shape |-> "positional"]
           id == Len(spans) + 1
           attributes == collect_attributes(
               ExchangeName(service_name), event_type, event_data, d)
           span == NewSpan(id,
               "Dispatch event " \o service_name \o "." \o event_type,
               "CLIENT", d.ec, ambient[d.ec], TRUE, attributes, clock)
           injected == inject(Carrier(d, context_data), span.context)
       IN  /\ d.kind = "worker" => service = ServiceName(d.worker_ctx)
           /\ spans' = Append(spans, span)
           /\ context_data' = IF d.kind = "worker"
                              THEN [context_data EXCEPT ![d.worker_ctx] = injected]
                              ELSE context_data
           /\ dispatchers' = IF d.kind = "worker" THEN dispatchers
                             ELSE [dispatchers EXCEPT ![i].headers = injected]
           /\ inflight' = [k \in {t} |-> [dispatcher |-> i, args |-> args,
                                          span |-> id]] @@ inflight
    /\ UNCHANGED <<patched, config, adapter_types, active_spans, ambient, clock,
                   warnings, calls, last, hookLog, published>>

\* The rest of wrapped_dispatch for thread t: the underlying dispatch sends
\* the message with the carrier as it is now and returns or raises, and the
\* span's scope is left.
wrapped_dispatch_publish(t, outcome) ==
    /\ t \in DOMAIN inflight
    /\ LET call == inflight[t]
           d == dispatchers[call.dispatcher]
           span == spans[call.span]
           closed == [SpanEnd(span, clock) EXCEPT
                         !.exits = 1,
                         !.status = IF outcome = "returns" THEN @
                                    ELSE [code |-> "ERROR",
                                          description |-> outcome \o ": "]]
       IN  /\ spans' = [spans EXCEPT ![call.span] = closed]
           /\ published' = Append(published,
                  [dispatcher |-> call.dispatcher, args |-> call.args,
                   headers |-> Carrier(d, context_data),
                   current |-> span.context, span |-> call.span,
                   outcome |-> outcome])
           /\ last' = [hook |-> "dispatch", ctx |-> d.ec,
                       raised |-> IF outcome = "returns" THEN NoRaise ELSE outcome,
                       found |-> FALSE, span |-> call.span, result |-> None,
                       args |-> NoArgs, wrapped |-> 1, ops |-> <<>>]
    /\ inflight' = [k \in DOMAIN inflight \ {t} |-> inflight[k]]
    /\ UNCHANGED <<patched, config, adapter_types, active_spans, ambient,
                   context_data, clock, warnings, calls, hookLog, dispatchers,
                   dispatched>>

-----------------------------------------------------------------------------
(* Specification of the worker lifecycle *)

Init ==
    /\ patched = {}
    /\ config = [send_headers |-> FALSE, send_request_payloads |-> FALSE,
                 send_response_payloads |-> FALSE, truncate_max_length |-> 0,
                 entrypoint_adapters |-> <<>>]
    /\ adapter_types = <<>>
    /\ active_spans = <<>>
    /\ spans = <<>>
    /\ ambient = [e \in ExecCtxs |-> EmptyContext]
    /\ context_data = [c \in WorkerCtxs |-> InboundCarrier(c)]
    /\ clock = 1
    /\ warnings = 0
    /\ calls = 0
    /\ last = [hook |-> "none", ctx |-> "none", raised |-> NoRaise,
               found |-> FALSE, span |-> 0, result |-> None, args |-> NoArgs,
               wrapped |-> 0, ops |-> <<>>]
    /\ hookLog = [c \in WorkerCtxs |-> <<>>]
    /\ dispatchers = <<>>
    /\ dispatched = 0
    /\ published = <<>>
    /\ inflight = <<>>

Next ==
    \/ \E cfg \in Configs : instrument(cfg)
    \/ \E c \in WorkerCtxs, sampled \in BOOLEAN : worker_setup(c, sampled)
    \/ \E c \in WorkerCtxs, outcome \in Outcomes : worker_result(c, outcome)
    \/ Tick

Spec == Init /\ [][Next]_vars

-----------------------------------------------------------------------------
(* Specification of event dispatch: the worker's begin hook and the wrapped  *)
(* dispatch functions                                                        *)

\* The workers that dispatch events, and the configuration they run under.
DispatchCtxs == {"w1", "w2"}
DispatchConfigs == {cfg \in Configs : ~cfg.send_request_payloads}

NextDispatch ==
    \/ \E cfg \in DispatchConfigs : instrument(cfg)
    \/ events_instrument
    \/ \E c \in DispatchCtxs : worker_setup(c, FALSE)
    \/ \E c \in DispatchCtxs : get_dependency(c)
    \/ \E supplied \in BOOLEAN : event_dispatcher(supplied, CallerHeaders)
    \/ \E i \in ExecCtxs, service \in {"billing", "auth"},
          event_type \in EventTypes, event_data \in EventData,
          shape \in CallShapes, outcome \in PublishOutcomes :
          wrapped_dispatch(i, service, event_type, event_data, shape, outcome)

SpecDispatch == Init /\ [][NextDispatch]_vars

-----------------------------------------------------------------------------
(* Specification of instrument() and uninstrument(): both modules' patches,  *)
(* with units of work and dispatches before and after they are removed       *)

RoundTripConfigs == {cfg \in Configs : ~cfg.send_request_payloads}
RoundTripOutcomes == {o \in Outcomes : o.exc = NoExc /\ o.result # None}
RoundTripEventData == {d \in EventData : Len(d) = 1}

NextRoundTrip ==
    \/ \E cfg \in RoundTripConfigs : instrument(cfg)
    \/ uninstrument
    \/ events_instrument
    \/ events_uninstrument
    \/ worker_setup("w1", TRUE)
    \/ \E outcome \in RoundTripOutcomes : worker_result("w1", outcome)
    \/ get_dependency("w1")
    \/ event_dispatcher(FALSE, CallerHeaders)
    \/ \E i \in {"w1", "main"}, event_type \in EventTypes,
          event_data \in RoundTripEventData :
          wrapped_dispatch(i, "billing", event_type, event_data,
                           "positional", "returns")

SpecRoundTrip == Init /\ [][NextRoundTrip]_vars

-----------------------------------------------------------------------------
(* Specification of concurrent dispatch: threads that share a dispatcher,    *)
(* each call split where the wrapper calls the underlying dispatch           *)

NextConcurrentDispatch ==
    \/ events_instrument
    \/ get_dependency("w1")
    \/ \E supplied \in BOOLEAN : event_dispatcher(supplied, CallerHeaders)
    \/ \E t \in Threads, i \in {"w1", "main"}, event_type \in EventTypes,
          event_data \in EventData :
          wrapped_dispatch_inject(t, i, "billing", event_type, event_data)
    \/ \E t \in Threads, outcome \in PublishOutcomes :
          wrapped_dispatch_publish(t, outcome)

SpecConcurrentDispatch == Init /\ [][NextConcurrentDispatch]_vars

-----------------------------------------------------------------------------
(* Properties *)

SpansOf(c) == {i \in DOMAIN spans : spans[i].owner = c /\ spans[i].kind = "SERVER"}

\* C1: a unit of work whose begin hook was followed by its end hook, with a
\* result or an exception outcome, has exactly one span started and that span
\* ended exactly once, and the span's start time is not after its end time.
C1_OneSpanPerUnit ==
    \A c \in WorkerCtxs :
        hookLog[c] = <<"begin", "end">> =>
            /\ Cardinality(SpansOf(c)) = 1
            /\ \A i \in SpansOf(c) :
                  /\ spans[i].ends = 1
                  /\ spans[i].start <= spans[i].end

C1_Witness ==
    \E c \in WorkerCtxs :
        /\ hookLog[c] = <<"begin", "end">>
        /\ \E i \in SpansOf(c) : spans[i].events # <<>> /\ spans[i].start < spans[i].end

\* C2: an end hook called for a worker context that has no record in the
\* registry emits one diagnostic, raises nothing, ends no span, detaches no
\* token and leaves the registry unchanged.
C2_EndWithoutRecord ==
    [][(/\ calls' = calls + 1
        /\ last'.hook = "worker_result"
        /\ last'.ctx \notin DOMAIN active_spans)
       => (/\ warnings' = warnings + 1
           /\ last'.raised = NoRaise
           /\ spans' = spans
           /\ ambient' = ambient
           /\ active_spans' = active_spans)]_vars

C2_Witness ==
    /\ last.hook = "worker_result"
    /\ last.ctx \notin DOMAIN active_spans
    /\ warnings > 0

\* C3: the registry holds a record for a worker context exactly while its
\* unit of work is started, i.e. has begun and not yet ended.
C3_RegistryHoldsOnlyStarted ==
    \A c \in WorkerCtxs :
        (c \in DOMAIN active_spans)
            <=> (hookLog[c] # <<>> /\ hookLog[c][Len(hookLog[c])] = "begin")

\* C4: the status the adapter sets at the end of a unit of work is ERROR only
\* for an exception whose type is not among the entrypoint's declared expected
\* types, then with description "<type name>: <message>"; it is OK for a
\* result and for an exception of a declared type.
C4_Status ==
    (last.hook = "worker_result" /\ last.found
        /\ spans[last.span].sampled /\ spans[last.span].ends = 1) =>
        LET status == spans[last.span].status
            exc == last.args.exc
            declared == Entrypoint(last.ctx).expected_exceptions
        IN  /\ status.code \in {"OK", "ERROR"}
            /\ status.code = "ERROR" =>
                  /\ exc # NoExc
                  /\ exc.type \notin declared
                  /\ status.description = exc.type \o ": " \o exc.msg
            /\ exc = NoExc => status.code = "OK"
            /\ (exc # NoExc /\ exc.type \in declared) => status.code = "OK"

C4_Witness ==
    /\ last.hook = "worker_result" /\ last.found
    /\ spans[last.span].sampled /\ spans[last.span].ends = 1
    /\ last.args.exc # NoExc
    /\ Entrypoint(last.ctx).expected_exceptions # {}
    /\ spans[last.span].status.code = "ERROR"

\* C5: the begin hook and the end hook raise no exception to the host, also
\* when the adapter's attribute computation fails.
C5_HooksNeverRaise ==
    last.hook \in {"worker_setup", "worker_result"} => last.raised = NoRaise

\* The adapter classes registered by instrument().
Registered == config.entrypoint_adapters @@ DEFAULT_ADAPTERS

\* C6: the adapter resolved for a unit of work is an instance of the adapter
\* registered for its entrypoint kind, and of the default EntrypointAdapter
\* when no adapter is registered for that kind.
C6_Resolution ==
    \A c \in WorkerCtxs :
        Count(hookLog[c], "begin") > 0 =>
            /\ c \in DOMAIN active_spans
            /\ active_spans[c].adapter.cls =
                  IF Entrypoint(c).cls \in DOMAIN Registered
                  THEN Registered[Entrypoint(c).cls]
                  ELSE DefaultAdapter

C6_Witness ==
    \E c, d \in DOMAIN active_spans :
        /\ Entrypoint(c).cls \notin DOMAIN Registered
        /\ active_spans[c].adapter.cls = DefaultAdapter
        /\ Entrypoint(d).cls \in DOMAIN Registered
        /\ active_spans[d].adapter.cls = EventHandlerAdapter

\* C7 as stated: a begin hook, resolving an adapter for a registered or an
\* unregistered kind, leaves the adapter registry's entries unchanged.
C7_RegistryReadOnly ==
    [][(calls' = calls + 1 /\ last'.hook = "worker_setup")
       => adapter_types' = adapter_types]_vars

\* C7 amended: a begin hook leaves every existing entry of the adapter
\* registry unchanged; for a registered kind the registry is unchanged, and
\* for an unregistered kind exactly one entry is added, which maps that kind
\* to the default EntrypointAdapter.
C7_RegistryGrowsByDefault ==
    [][(calls' = calls + 1 /\ last'.hook = "worker_setup") =>
        LET kind == Entrypoint(last'.ctx).cls
        IN  /\ \A k \in DOMAIN adapter_types :
                  k \in DOMAIN adapter_types' /\ adapter_types'[k] = adapter_types[k]
            /\ kind \in DOMAIN adapter_types => adapter_types' = adapter_types
            /\ kind \notin DOMAIN adapter_types =>
                  /\ DOMAIN adapter_types' = DOMAIN adapter_types \cup {kind}
                  /\ adapter_types'[kind] = DefaultAdapter]_vars

C7_Witness ==
    /\ last.hook = "worker_setup"
    /\ Entrypoint(last.ctx).cls \notin DOMAIN Registered
    /\ Entrypoint(last.ctx).cls \in DOMAIN adapter_types
    /\ \E c \in DOMAIN active_spans : Entrypoint(c).cls \in DOMAIN Registered

\* C8: every call of a wrapped dispatch function opens exactly one CLIENT span
\* named "Dispatch event <service>.<event type>", calls the underlying publish
\* exactly once with the caller's arguments while that span is current, closes
\* the span whether publish returns or raises, and hands publish's result or
\* exception to the caller.
C8_DispatchTransparent ==
    /\ Len(published) = dispatched
    /\ Cardinality({i \in DOMAIN spans : spans[i].kind = "CLIENT"}) = dispatched
    /\ \A i \in DOMAIN published :
          LET m == published[i]
              span == spans[m.span]
          IN  /\ span.kind = "CLIENT"
              /\ span.name = "Dispatch event " \o m.args.service \o "."
                                 \o m.args.event_type
              /\ m.current = span.context
              /\ span.ends = 1
    /\ (last.hook = "dispatch" /\ published # <<>>) =>
          last.raised = IF published[Len(published)].outcome = "returns"
                        THEN NoRaise
                        ELSE published[Len(published)].outcome

\* C9: the message of every dispatch is published with a header carrier that
\* holds the trace context of that dispatch's CLIENT span (same trace id and
\* span id), also when the caller of the standalone dispatcher supplied no
\* headers.
C9_InjectedContext ==
    \A i \in DOMAIN published :
        /\ "traceparent" \in DOMAIN published[i].headers
        /\ published[i].headers["traceparent"][1]
               = spans[published[i].span].context.trace
        /\ published[i].headers["traceparent"][2]
               = spans[published[i].span].context.span

C9_Witness ==
    \E i, j \in DOMAIN published :
        /\ published[i].dispatcher = "main"
        /\ ~dispatchers["main"].supplied
        /\ published[j].dispatcher \in WorkerCtxs
        /\ spans[published[j].span].parent # EmptyContext
        /\ spans[published[j].span].parent # RemoteContext
        /\ published[j].headers["traceparent"][2] = published[j].span

\* C10: a recording span begun for a unit of work handled by the
\* event-handler adapter carries, besides the common attributes, the handler
\* type, the reliable-delivery flag, the requeue-on-error flag and the
\* consumer's transport attributes.
C10_EventHandlerAttributes ==
    \A c \in DOMAIN active_spans :
        LET span == spans[active_spans[c].span]
        IN  (/\ active_spans[c].adapter.cls = EventHandlerAdapter
             /\ span.sampled
             /\ "service_name" \in DOMAIN span.attributes)
            => {"nameko.events.handler_type", "nameko.events.reliable_delivery",
                "nameko.events.requeue_on_error", "amqp.consumer"}
                   \subseteq DOMAIN span.attributes

\* C11: a span gains a result attribute only in an end hook that ended the
\* unit of work with a result while send_response_payloads is enabled: never
\* with the option disabled, and never for an exception outcome.
C11_NoResultAttribute ==
    [][\A i \in DOMAIN spans' :
          (/\ "result" \in DOMAIN spans'[i].attributes
           /\ (i \in DOMAIN spans => "result" \notin DOMAIN spans[i].attributes))
          => (/\ config.send_response_payloads
              /\ last'.hook = "worker_result"
              /\ last'.span = i
              /\ last'.args.exc = NoExc)]_vars

C11_Witness ==
    /\ ~config.send_response_payloads
    /\ last.hook = "worker_result" /\ last.found
    /\ last.args.exc = NoExc /\ last.args.result # None
    /\ spans[last.span].sampled /\ spans[last.span].ends = 1
    /\ "result" \notin DOMAIN spans[last.span].attributes
    /\ \E i \in DOMAIN spans : spans[i].events # <<>>

\* C12: under any sequence of begin and end hooks, no span is ended more than
\* once and no detach token is detached more than once; an end hook repeated
\* for a worker context whose unit already ended finds no record and only
\* emits the diagnostic.
C12_EndedOnce ==
    /\ \A i \in DOMAIN spans : spans[i].ends <= 1 /\ spans[i].detaches <= 1
    /\ \A c \in WorkerCtxs :
          (last.hook = "worker_result" /\ last.ctx = c
              /\ Count(hookLog[c], "end") > 1) => ~last.found

\* C13 as stated: after the first end hook of a unit of work the span carries
\* the status computed by the adapter, whether or not the span was recording.
C13_StatusAlwaysSet ==
    (last.hook = "worker_result" /\ last.found /\ spans[last.span].ends = 1) =>
        spans[last.span].status =
            get_status(active_spans[last.ctx].adapter, last.args.result,
                       last.args.exc)

\* C13 amended: the adapter's end step writes to the span only when the span
\* is recording: then it records the exception (with the exception attributes,
\* marked escaped) or attaches the result attributes, and sets the final
\* status; on a span that is not recording it changes neither the status, nor
\* the events, nor the attributes.
C13_EndStepOnlyWhenRecording ==
    [][(calls' = calls + 1 /\ last'.hook = "worker_result" /\ last'.found) =>
        LET id == last'.span
            adapter == active_spans[last'.ctx].adapter
            result == last'.args.result
            exc == last'.args.exc
        IN  IF is_recording(spans[id])
            THEN /\ spans'[id].status = get_status(adapter, result, exc)
                 /\ IF exc # NoExc
                    THEN /\ spans'[id].events = Append(spans[id].events,
                                [exception |-> exc, escaped |-> TRUE,
                                 attributes |-> get_exception_attributes(adapter, exc)])
                         /\ spans'[id].attributes = spans[id].attributes
                    ELSE /\ spans'[id].events = spans[id].events
                         /\ spans'[id].attributes =
                                get_result_attributes(config, result) @@ spans[id].attributes
            ELSE /\ spans'[id].status = spans[id].status
                 /\ spans'[id].events = spans[id].events
                 /\ spans'[id].attributes = spans[id].attributes]_vars

C13_Witness ==
    /\ last.hook = "worker_result" /\ last.found
    /\ ~spans[last.span].sampled /\ spans[last.span].ends = 1
    /\ last.args.exc # NoExc
    /\ ~exception_was_expected(active_spans[last.ctx].adapter, last.args.exc)
    /\ spans[last.span].status = StatusUnset
    /\ \E i \in DOMAIN spans : spans[i].sampled /\ spans[i].status.code = "ERROR"

\* C14: within one unit of work the ambient-context operations nest last-in-
\* first-out and the end steps run in a fixed order. The begin hook attaches
\* the context extracted from the carrier (its token remembers the ambient
\* context before the hook) and then enters the span scope, which makes the
\* span current. The end hook first lets the adapter finalize the span, then
\* exits the span scope, then ends the span, and last detaches the token of
\* the begin hook, which leaves the ambient context as it was before begin.
C14_NestedLifo ==
    [][/\ (calls' = calls + 1 /\ last'.hook = "worker_setup") =>
            LET c == last'.ctx
                record == active_spans'[c]
            IN  /\ last'.ops = <<"context.attach", "activation.__enter__">>
                /\ record.token.old = ambient[c]
                /\ record.activation.old = extract(context_data[c])
                /\ ambient'[c] = spans'[record.span].context
       /\ (calls' = calls + 1 /\ last'.hook = "worker_result" /\ last'.found) =>
            LET c == last'.ctx
                record == active_spans[c]
                id == record.span
            IN  /\ last'.ops = <<"adapter.end_span", "activation.__exit__",
                                 "span.end", "context.detach">>
                /\ is_recording(spans[id]) => spans'[id].status # StatusUnset
                /\ spans'[id].exits = spans[id].exits + 1
                /\ spans'[id].ends = spans[id].ends + 1
                /\ spans'[id].detaches = spans[id].detaches + 1
                /\ ambient'[c] = record.token.old]_vars

C14_Witness ==
    /\ last.hook = "worker_result" /\ last.found
    /\ hookLog[last.ctx] = <<"begin", "end">>
    /\ active_spans[last.ctx].activation.old = RemoteContext
    /\ active_spans[last.ctx].token.old = EmptyContext
    /\ spans[last.span].sampled /\ spans[last.span].status # StatusUnset
    /\ ambient[last.ctx] = EmptyContext
    /\ \E c \in WorkerCtxs : ambient[c] # EmptyContext

\* C15: when the hooks of units of work with distinct worker contexts
\* interleave, an end hook finalizes and ends exactly the span that the begin
\* hook of its own worker context started, with the adapter and the token
\* that begin hook stored; the spans, the records and the ambient contexts of
\* the other units are left as they are.
C15_OwnRecordOnly ==
    [][(calls' = calls + 1 /\ last'.hook = "worker_result" /\ last'.found) =>
        LET c == last'.ctx
            record == active_spans[c]
            id == record.span
        IN  /\ last'.span = id
            /\ spans[id].owner = c
            /\ record.adapter.worker_ctx = c
            /\ spans'[id].ends = spans[id].ends + 1
            /\ is_recording(spans[id]) =>
                  spans'[id].status =
                      get_status(record.adapter, last'.args.result, last'.args.exc)
            /\ ambient'[c] = record.token.old
            /\ \A j \in DOMAIN spans : j # id => spans'[j] = spans[j]
            /\ \A e \in ExecCtxs : e # c => ambient'[e] = ambient[e]
            /\ active_spans' = active_spans
            /\ \A b \in DOMAIN active_spans : b # c => active_spans[b].span # id]_vars

\* Two units whose hooks interleave: the second began before the first
\* ended, and the first's end hook ran before the second's.
C15_Witness ==
    \E a, b \in WorkerCtxs :
        /\ a # b
        /\ hookLog[a] = <<"begin", "end">> /\ hookLog[b] = <<"begin", "end">>
        /\ last.hook = "worker_result" /\ last.ctx = b /\ last.found
        /\ active_spans[a].span < active_spans[b].span
        /\ spans[active_spans[b].span].start < spans[active_spans[a].span].end
        /\ spans[active_spans[a].span].end <= spans[active_spans[b].span].end
        /\ spans[active_spans[a].span].status # spans[active_spans[b].span].status

\* C16: the span a begin hook starts has as parent the trace context held by
\* the unit's own inbound carrier and continues that trace; when the carrier
\* holds no trace context the span has no parent and starts a trace of its
\* own. Its parent is never a span of another unit of work.
C16_ParentFromOwnCarrier ==
    [][(calls' = calls + 1 /\ last'.hook = "worker_setup") =>
        LET c == last'.ctx
            carrier == context_data[c]
            span == spans'[last'.span]
        IN  /\ span.owner = c
            /\ IF "traceparent" \in DOMAIN carrier
               THEN /\ span.parent.trace = carrier["traceparent"][1]
                    /\ span.parent.span = carrier["traceparent"][2]
                    /\ span.context.trace = span.parent.trace
               ELSE /\ span.parent = EmptyContext
                    /\ \A j \in DOMAIN spans :
                          span.context.trace # spans[j].context.trace
            /\ \A j \in DOMAIN spans : span.parent # spans[j].context]_vars

\* Two units are open at once: the later one has no trace context in its
\* carrier and is a root, the earlier one continues the remote trace.
C16_Witness ==
    \E a, b \in DOMAIN active_spans :
        /\ hookLog[a] = <<"begin">> /\ hookLog[b] = <<"begin">>
        /\ active_spans[a].span < active_spans[b].span
        /\ spans[active_spans[a].span].parent = RemoteContext
        /\ spans[active_spans[b].span].parent = EmptyContext
        /\ spans[active_spans[b].span].context.trace
              # spans[active_spans[a].span].context.trace
        /\ last.hook = "worker_setup" /\ last.ctx = b

\* C17: the serialized event payload attribute of a dispatch span is cut at
\* the configured truncate_max_length, and its truncated flag tells whether
\* the serialized payload was longer than that configured length.
C17_PayloadTruncation ==
    \A i \in DOMAIN published :
        WorkerHooks \subseteq patched =>
            LET text == serialise_to_string(published[i].args.event_data)
                attributes == spans[published[i].span].attributes
            IN  /\ attributes["nameko.events.event_data"]
                       = truncate(text, config.truncate_max_length)[1]
                /\ attributes["nameko.events.event_data_truncated"]
                       = str(Len(text) > config.truncate_max_length)

\* C18: every call of the wrapper installed over ServiceContainer._worker_setup
\* or ServiceContainer._worker_result calls the host's original hook exactly
\* once.
C18_HooksTransparent ==
    last.hook \in {"worker_setup", "worker_result"} => last.wrapped = 1

\* C19: instrument() followed by uninstrument() is a round trip. After
\* entrypoints.uninstrument() neither worker hook of the service container is
\* wrapped, after events.uninstrument() neither event publish path is
\* wrapped, and a hook called after uninstrument() starts no span.
C19_RoundTrip ==
    [][/\ last'.hook = "uninstrument" => patched' \cap WorkerHooks = {}
       /\ last'.hook = "events.uninstrument" => patched' \cap DispatchHooks = {}
       /\ (last.hook = "uninstrument" /\ last'.hook = "worker_setup")
              => spans' = spans]_vars

\* C20: when dispatch calls made through the same dispatcher interleave,
\* the carrier holds the trace context of a dispatch's own span from its
\* injection until its publish, and the message it publishes carries that
\* context.
C20_OwnContextPublished ==
    /\ \A t \in DOMAIN inflight :
          LET carrier == Carrier(dispatchers[inflight[t].dispatcher], context_data)
          IN  carrier["traceparent"] = <<spans[inflight[t].span].context.trace,
                                         spans[inflight[t].span].context.span>>
    /\ \A i \in DOMAIN published :
          published[i].headers["traceparent"]
              = <<published[i].current.trace, published[i].current.span>>

====
